---- MODULE Spec2Model ----
(***************************************************************************)
(* Model of app.py, the Excel Data Cleaner for MCHX experimental results.  *)
(*                                                                         *)
(* The script loads an uploaded workbook, reads the cells named by         *)
(* cell_map from every worksheet into a list of records, builds a pandas   *)
(* DataFrame from the records, writes the frame into a new workbook,       *)
(* serialises it, and then offers a preview and a download.  One           *)
(* try/except wraps the whole pipeline.                                    *)
(*                                                                         *)
(* Cell values are records [t, n, s]:                                      *)
(*   t = "empty"  None                                                     *)
(*   t = "int"    a Python int, n its value                                *)
(*   t = "float"  a Python float, n its value in tenths (1.5 is n = 15)    *)
(*   t = "nan"    the float not-a-number                                   *)
(*   t = "text"   a str, s its characters (a sequence of one-character     *)
(*                strings); a header cell holds its label as one token     *)
(* The labels are spelled in ASCII here: the source's "∆" is written "d"   *)
(* and "°C" is written "degC".                                             *)
(***************************************************************************)
EXTENDS Integers, Sequences, FiniteSets, TLC

\* ---------------------------------------------------------------- bounds
MaxSheets == 2
MaxRuns == 2
MaxTextLen == 4

\* ---------------------------------------------------------------- values
Empty == [t |-> "empty", n |-> 0, s |-> <<>>]
IntV(k) == [t |-> "int", n |-> k, s |-> <<>>]
FloatV(tenths) == [t |-> "float", n |-> tenths, s |-> <<>>]
NaN == [t |-> "nan", n |-> 0, s |-> <<>>]
TextV(chars) == [t |-> "text", n |-> 0, s |-> chars]

IsNumber(v) == v.t \in {"int", "float", "nan"}
IsText(v) == v.t = "text"
IsEmpty(v) == v.t = "empty"

\* ---------------------------------------------------------------- cell_map
QtyLabel == "Refrigerant Qty (g)"

cell_map ==
  << <<"Refrigerant Qty (g)", 16, 2>>,
     <<"EEV", 7, 2>>,
     <<"Test Condition", 2, 2>>,
     <<"Comp RPM/Hz", 4, 2>>,
     <<"IDU RPM", 5, 2>>,
     <<"ODU RPM", 6, 2>>,
     <<"ID DBT", 9, 2>>,
     <<"ID WBT", 10, 2>>,
     <<"OD DBT", 11, 2>>,
     <<"OD WBT", 12, 2>>,
     <<"Suction Pressure (Bar)", 19, 2>>,
     <<"Cond In Pressure (Bar)", 20, 2>>,
     <<"Cond Out Pressure (Bar)", 21, 2>>,
     <<"Suction Sat T (degC)", 19, 5>>,
     <<"Cond in Sat T (degC)", 20, 5>>,
     <<"Cond out Sat T (degC)", 21, 5>>,
     <<"Temp Compressor in (degC)", 23, 2>>,
     <<"Temp Condenser in (degC)", 24, 2>>,
     <<"Temp Condenser out (degC)", 25, 2>>,
     <<"Temp Evaporator out (degC)", 26, 2>>,
     <<"SH (Evaporator) (degC)", 23, 5>>,
     <<"SH (Suction) (degC)", 24, 5>>,
     <<"SC (degC)", 25, 5>>,
     <<"Power Consumption (W)", 29, 2>>,
     <<"Enthalpy Evap In (kJ/kg)", 31, 2>>,
     <<"Enthalpy Evap Out (kJ/kg)", 32, 2>>,
     <<"dH Evap (kJ/kg)", 33, 2>>,
     <<"Enthalpy Cond In (kJ/kg)", 34, 2>>,
     <<"Cond Enthalpy Out (kJ/kg)", 35, 2>>,
     <<"dH Cond (kJ/kg)", 36, 2>>,
     <<"Mass Flow (kg/hr)", 38, 2>>,
     <<"Cooling Cap (W)", 40, 2>>,
     <<"Cooling Cap (Btu/hr)", 40, 4>>,
     <<"COP (W/W)", 45, 2>> >>

FieldCount == Len(cell_map)
Labels == [j \in 1..FieldCount |-> cell_map[j][1]]

\* ---------------------------------------------------------------- str.removesuffix, int(str)
Digits == {"0", "1", "2", "3", "4", "5", "6", "7", "8", "9"}

DigitVal(ch) ==
  CASE ch = "0" -> 0 [] ch = "1" -> 1 [] ch = "2" -> 2 [] ch = "3" -> 3
    [] ch = "4" -> 4 [] ch = "5" -> 5 [] ch = "6" -> 6 [] ch = "7" -> 7
    [] ch = "8" -> 8 [] ch = "9" -> 9

\* As str.rstrip('GM') would do: every trailing "G" and "M" is dropped.
RECURSIVE removesuffix_rstrip(_)
removesuffix_rstrip(chars) ==
  IF chars # <<>> /\ chars[Len(chars)] \in {"G", "M"}
    THEN removesuffix_rstrip(SubSeq(chars, 1, Len(chars) - 1))
    ELSE chars

\* str.removesuffix('GM'): one trailing "GM" is dropped when the string ends
\* with it, and the string is returned unchanged otherwise.
removesuffix(chars) ==
  LET len == Len(chars)
  IN IF len >= 2 /\ chars[len - 1] = "G" /\ chars[len] = "M"
       THEN SubSeq(chars, 1, len - 2)
       ELSE chars

\* str.strip() as int() applies it: leading and trailing blanks are dropped.
RECURSIVE StripLeft(_)
StripLeft(chars) ==
  IF chars # <<>> /\ Head(chars) = " " THEN StripLeft(Tail(chars)) ELSE chars

RECURSIVE StripRight(_)
StripRight(chars) ==
  IF chars # <<>> /\ chars[Len(chars)] = " "
    THEN StripRight(SubSeq(chars, 1, Len(chars) - 1))
    ELSE chars

\* The digits of a decimal literal: non-empty, digits only, except that one
\* underscore may stand between two digits.
DigitsOk(chars) ==
  /\ chars # <<>>
  /\ \A p \in 1..Len(chars) :
       \/ chars[p] \in Digits
       \/ /\ chars[p] = "_"
          /\ p > 1 /\ p < Len(chars)
          /\ chars[p - 1] \in Digits /\ chars[p + 1] \in Digits

RECURSIVE DigitsValue(_, _)
DigitsValue(chars, acc) ==
  IF chars = <<>> THEN acc
  ELSE IF Head(chars) = "_" THEN DigitsValue(Tail(chars), acc)
  ELSE DigitsValue(Tail(chars), 10 * acc + DigitVal(Head(chars)))

\* int(str): [ok |-> TRUE, v |-> n] for a valid literal, ok = FALSE where
\* Python raises ValueError.
ParseInt(chars) ==
  LET body == StripRight(StripLeft(chars))
      signed == body # <<>> /\ Head(body) \in {"+", "-"}
      digs == IF signed THEN Tail(body) ELSE body
  IN IF DigitsOk(digs)
       THEN [ok |-> TRUE,
             v |-> IF signed /\ Head(body) = "-"
                     THEN 0 - DigitsValue(digs, 0)
                     ELSE DigitsValue(digs, 0)]
       ELSE [ok |-> FALSE, v |-> 0]

\* ---------------------------------------------------------------- extraction
\* As int(cell_value[:-2]) would do: the last two characters are dropped
\* whatever they are.
NormalizeQty_DropsTwo(cell_value) ==
  IF IsText(cell_value)
    THEN LET len == Len(cell_value.s)
             parsed == ParseInt(SubSeq(cell_value.s, 1, IF len >= 2 THEN len - 2 ELSE 0))
         IN [ok |-> parsed.ok, v |-> IntV(parsed.v)]
    ELSE [ok |-> TRUE, v |-> cell_value]

\* The refrigerant-quantity branch: a str cell goes through
\* int(cell_value.removesuffix('GM')), any other cell is kept.
\* ok = FALSE stands for the ValueError int() raises.
NormalizeQty(cell_value) ==
  IF IsText(cell_value)
    THEN LET parsed == ParseInt(removesuffix(cell_value.s))
         IN [ok |-> parsed.ok, v |-> IntV(parsed.v)]
    ELSE [ok |-> TRUE, v |-> cell_value]

\* As the loop would do without the test of the header: every field goes
\* through the quantity rule.
ExtractCell_AllFields(header, cell_value) ==
  IF IsText(cell_value)
    THEN LET parsed == ParseInt(removesuffix(cell_value.s))
         IN [ok |-> parsed.ok, v |-> IntV(parsed.v)]
    ELSE [ok |-> TRUE, v |-> cell_value]

\* The body of the inner loop: the value stored under header.
ExtractCell(header, cell_value) ==
  IF header = QtyLabel
    THEN NormalizeQty(cell_value)
    ELSE [ok |-> TRUE, v |-> cell_value]

\* ---------------------------------------------------------------- input workbooks
\* A worksheet is given by the value of its quantity cell and by the way
\* the rest of its cells are filled.
T12GM == <<"1", "2", "G", "M">>

FillValue(fill, r, c) ==
  CASE fill = "ints" -> IntV(100 * r + c)
    [] fill = "blank" -> Empty
    [] fill = "mixed" ->
         CASE (r + c) % 4 = 0 -> TextV(T12GM)
           [] (r + c) % 4 = 1 -> FloatV(10 * r + c)
           [] (r + c) % 4 = 2 -> Empty
           [] OTHER -> IntV(r)

\* ws.cell(row=r, column=c).value, with data_only=True: the stored value,
\* None for a cell that is blank or absent.
CellValue(ws, r, c) ==
  IF r = cell_map[1][2] /\ c = cell_map[1][3] THEN ws.q ELSE FillValue(ws.fill, r, c)

QtyValues ==
  { Empty, IntV(12), FloatV(15),
    TextV(T12GM), TextV(<<"7">>),
    TextV(<<"1", "2", "K", "G">>), TextV(<<"1", "2", "g", "m">>),
    TextV(<<"1", ".", "5", "G", "M">>), TextV(<<"G", "M">>),
    TextV(<<"1", "2", "G", "M", "G", "M">>), TextV(<<>>) }

\* The worksheets a workbook is made of: every quantity value on a sheet of
\* integers, a sheet that is blank but for its quantity, and a sheet of
\* texts, floats, blanks and integers.
Worksheets ==
  {[q |-> v, fill |-> "ints"] : v \in QtyValues}
    \cup {[q |-> IntV(12), fill |-> "blank"], [q |-> TextV(T12GM), fill |-> "mixed"]}

RECURSIVE SeqsUpTo(_, _)
SeqsUpTo(S, k) ==
  IF k = 0 THEN {<<>>}
  ELSE LET shorter == SeqsUpTo(S, k - 1)
       IN shorter \cup {Append(w, x) : w \in {v \in shorter : Len(v) = k - 1}, x \in S}

\* What the user can upload: bytes load_workbook rejects, or a workbook.
Files ==
  {[valid |-> FALSE, sheets |-> <<>>]}
    \cup {[valid |-> TRUE, sheets |-> w] : w \in SeqsUpTo(Worksheets, MaxSheets)}

\* One pass of the inner loop over cell_map for worksheet ws: the dict
\* row_data as the sequence of its (key, value) pairs in insertion order.
\* ok = FALSE when int() raised on the way.
ExtractRow(ws) ==
  LET cells == [j \in 1..FieldCount |->
                  ExtractCell(cell_map[j][1], CellValue(ws, cell_map[j][2], cell_map[j][3]))]
  IN [ok |-> \A j \in 1..FieldCount : cells[j].ok,
      row_data |-> [j \in 1..FieldCount |-> <<cell_map[j][1], cells[j].v>>]]

\* ---------------------------------------------------------------- pd.DataFrame(records)
\* The dtype pandas infers for one column of the list of dicts, and the
\* values the column then holds: a column with any str stays object and
\* keeps its values, as does a column of None only; a column of int only is
\* int64; any other column is float64, its ints turned to floats and its
\* None to NaN.
CoerceColumn(col) ==
  LET vals == {col[i] : i \in 1..Len(col)}
  IN IF \E v \in vals : IsText(v) THEN col
     ELSE IF \A v \in vals : IsEmpty(v) THEN col
     ELSE IF \A v \in vals : v.t = "int" THEN col
     ELSE [i \in 1..Len(col) |->
             CASE col[i].t = "int" -> FloatV(10 * col[i].n)
               [] col[i].t = "empty" -> NaN
               [] OTHER -> col[i]]

\* The frame built from the records: its columns are the keys of the dicts
\* in order of first appearance (none for an empty list), its rows hold the
\* coerced column values.
DataFrame(recs) ==
  IF recs = <<>>
    THEN [columns |-> <<>>, rows |-> <<>>]
    ELSE LET width == Len(recs[1])
             column(j) == CoerceColumn([i \in 1..Len(recs) |-> recs[i][j][2]])
         IN [columns |-> [j \in 1..width |-> recs[1][j][1]],
             rows |-> [i \in 1..Len(recs) |-> [j \in 1..width |-> column(j)[i]]]]

PreviewRows == 5

\* df.head()
DfHead(frame) ==
  [columns |-> frame.columns,
   rows |-> SubSeq(frame.rows, 1,
                   IF Len(frame.rows) < PreviewRows THEN Len(frame.rows) ELSE PreviewRows)]

\* ---------------------------------------------------------------- state
VARIABLES
  uploaded_file,  \* the file in the uploader, valid = FALSE also before any upload
  has_file,       \* uploaded_file is not None
  pc,             \* where the script stands
  run,            \* how many times the script has run on uploaded_file
  wb,             \* the worksheets of the loaded workbook
  records,        \* the list of row_data dicts
  i,              \* worksheets extracted so far in the sheet loop
  df,             \* the DataFrame
  ws_out,         \* the cells of the sheet 'Consolidated Data': (row, column) -> value
  row_idx,        \* data rows written so far
  output,         \* the BytesIO buffer: [saved, data]
  preview,        \* what st.dataframe shows: [shown, frame]
  download,       \* what st.download_button offers: [offered, data]
  errors,         \* st.error messages on the page
  hints,          \* st.info remediation hints on the page
  prev            \* what the previous run on the same file ended with

vars ==
  <<uploaded_file, has_file, pc, run, wb, records, i, df, ws_out, row_idx,
    output, preview, download, errors, hints, prev>>

script_vars == <<wb, records, i, df, ws_out, row_idx, output>>
page_vars == <<preview, download, errors, hints>>
upload_vars == <<uploaded_file, has_file, run, prev>>

NoSheet == [rc \in {} |-> Empty]
NoFrame == [columns |-> <<>>, rows |-> <<>>]
NoPage == [status |-> "none", preview |-> [shown |-> FALSE, frame |-> NoFrame],
           download |-> [offered |-> FALSE, data |-> NoSheet]]

Init ==
  /\ uploaded_file = [valid |-> FALSE, sheets |-> <<>>]
  /\ has_file = FALSE
  /\ pc = "idle"
  /\ run = 0
  /\ wb = <<>>
  /\ records = <<>>
  /\ i = 0
  /\ df = NoFrame
  /\ ws_out = NoSheet
  /\ row_idx = 0
  /\ output = [saved |-> FALSE, data |-> NoSheet]
  /\ preview = [shown |-> FALSE, frame |-> NoFrame]
  /\ download = [offered |-> FALSE, data |-> NoSheet]
  /\ errors = 0
  /\ hints = 0
  /\ prev = NoPage

\* ---------------------------------------------------------------- writing the output sheet
\* ws_out.cell(row=r, column=c, value=...) for every column c of one row.
WriteRow(sheet, r, values) ==
  LET new == {<<r, c>> : c \in 1..Len(values)}
  IN [rc \in DOMAIN sheet \cup new |-> IF rc \in new THEN values[rc[2]] ELSE sheet[rc]]

\* The header loop over df.columns.
HeaderWritten(sheet, frame) ==
  WriteRow(sheet, 1, [c \in 1..Len(frame.columns) |-> TextV(<<frame.columns[c]>>)])

\* One pass of the data loop: the tuple of frame row k goes to sheet row k + 1.
DataRowWritten(sheet, frame, k) ==
  WriteRow(sheet, k + 1, frame.rows[k])

\* ---------------------------------------------------------------- the script
\* The user puts a file into the uploader; the script runs on it.
Upload ==
  /\ pc = "idle"
  /\ \E f \in Files : uploaded_file' = f
  /\ has_file' = TRUE
  /\ run' = 1
  /\ pc' = "load"
  /\ UNCHANGED <<prev, script_vars, page_vars>>

\* As the load would do with records kept across runs: the list is not
\* emptied.
LoadWorkbook_KeepsRecords ==
  /\ pc = "load"
  /\ has_file
  /\ IF uploaded_file.valid
       THEN /\ wb' = uploaded_file.sheets
            /\ i' = 0
            /\ pc' = "extract"
       ELSE /\ pc' = "except"
            /\ UNCHANGED <<wb, i>>
  /\ UNCHANGED <<upload_vars, records, df, ws_out, row_idx, output, page_vars>>

\* load_workbook(uploaded_file, data_only=True); records = []; the sheet
\* loop is entered.  Bytes that are no workbook raise.
LoadWorkbook ==
  /\ pc = "load"
  /\ has_file
  /\ IF uploaded_file.valid
       THEN /\ wb' = uploaded_file.sheets
            /\ records' = <<>>
            /\ i' = 0
            /\ pc' = "extract"
       ELSE /\ pc' = "except"
            /\ UNCHANGED <<wb, records, i>>
  /\ UNCHANGED <<upload_vars, df, ws_out, row_idx, output, page_vars>>

\* One pass of the sheet loop: row_data is filled from cell_map and appended
\* to records, unless int() raises on the quantity cell.
ExtractSheet ==
  /\ pc = "extract"
  /\ i < Len(wb)
  /\ LET ex == ExtractRow(wb[i + 1])
     IN IF ex.ok
          THEN /\ records' = Append(records, ex.row_data)
               /\ i' = i + 1
               /\ pc' = pc
          ELSE /\ pc' = "except"
               /\ UNCHANGED <<records, i>>
  /\ UNCHANGED <<upload_vars, wb, df, ws_out, row_idx, output, page_vars>>

\* df = pd.DataFrame(records); out_wb = Workbook(); ws_out = out_wb.active
BuildDataFrame ==
  /\ pc = "extract"
  /\ i = Len(wb)
  /\ df' = DataFrame(records)
  /\ ws_out' = NoSheet
  /\ pc' = "headers"
  /\ UNCHANGED <<upload_vars, wb, records, i, row_idx, output, page_vars>>

\* The header loop.
WriteHeaders ==
  /\ pc = "headers"
  /\ ws_out' = HeaderWritten(ws_out, df)
  /\ row_idx' = 0
  /\ pc' = "rows"
  /\ UNCHANGED <<upload_vars, wb, records, i, df, output, page_vars>>

\* One pass of the data-row loop.
WriteDataRow ==
  /\ pc = "rows"
  /\ row_idx < Len(df.rows)
  /\ ws_out' = DataRowWritten(ws_out, df, row_idx + 1)
  /\ row_idx' = row_idx + 1
  /\ UNCHANGED <<upload_vars, pc, wb, records, i, df, output, page_vars>>

\* output = BytesIO(); out_wb.save(output); output.seek(0)
Save ==
  /\ pc = "rows"
  /\ row_idx = Len(df.rows)
  /\ output' = [saved |-> TRUE, data |-> ws_out]
  /\ pc' = "preview"
  /\ UNCHANGED <<upload_vars, wb, records, i, df, ws_out, row_idx, page_vars>>

\* out_wb.save raises.
SaveFails ==
  /\ pc = "rows"
  /\ row_idx = Len(df.rows)
  /\ pc' = "except"
  /\ UNCHANGED <<upload_vars, script_vars, page_vars>>

\* st.dataframe(df.head())
ShowPreview ==
  /\ pc = "preview"
  /\ preview' = [shown |-> TRUE, frame |-> DfHead(df)]
  /\ pc' = "download"
  /\ UNCHANGED <<upload_vars, script_vars, download, errors, hints>>

\* st.download_button(data=output)
OfferDownload ==
  /\ pc = "download"
  /\ download' = [offered |-> TRUE, data |-> output.data]
  /\ pc' = "done"
  /\ UNCHANGED <<upload_vars, script_vars, preview, errors, hints>>

\* As a handler inside the pipeline would do: the failure is reported and
\* the script goes on to the preview and the download.
HandleError_GoesOn ==
  /\ pc = "except"
  /\ errors' = errors + 1
  /\ hints' = hints + 1
  /\ pc' = "preview"
  /\ UNCHANGED <<upload_vars, script_vars, preview, download>>

\* except Exception: st.error(...); st.info(...)
HandleError ==
  /\ pc = "except"
  /\ errors' = errors + 1
  /\ hints' = hints + 1
  /\ pc' = "failed"
  /\ UNCHANGED <<upload_vars, script_vars, preview, download>>

\* The script runs again on the file still in the uploader, as it does on
\* any interaction with the page: the page is drawn afresh.
Rerun ==
  /\ pc \in {"done", "failed"}
  /\ run < MaxRuns
  /\ run' = run + 1
  /\ prev' = [status |-> pc, preview |-> preview, download |-> download]
  /\ preview' = [shown |-> FALSE, frame |-> NoFrame]
  /\ download' = [offered |-> FALSE, data |-> NoSheet]
  /\ errors' = 0
  /\ hints' = 0
  /\ pc' = "load"
  /\ UNCHANGED <<uploaded_file, has_file, script_vars>>

Next ==
  \/ Upload
  \/ LoadWorkbook
  \/ ExtractSheet
  \/ BuildDataFrame
  \/ WriteHeaders
  \/ WriteDataRow
  \/ Save
  \/ SaveFails
  \/ ShowPreview
  \/ OfferDownload
  \/ HandleError
  \/ Rerun

Spec == Init /\ [][Next]_vars

\* ---------------------------------------------------------------- the quantity rule on its own
\* A second specification: one run of the script on a one-sheet workbook
\* whose quantity cell ranges over every short text and the other kinds of
\* value, up to the end of the sheet loop.
Alphabet == {"1", "2", "G", "M", "m", "K", ".", "-", " "}

QtyInputs ==
  {Empty, IntV(12), IntV(0), FloatV(15)} \cup {TextV(w) : w \in SeqsUpTo(Alphabet, MaxTextLen)}

QtyFiles ==
  {[valid |-> FALSE, sheets |-> <<>>]}
    \cup {[valid |-> TRUE, sheets |-> <<[q |-> v, fill |-> "ints"]>>] : v \in QtyInputs}

InitQty ==
  /\ uploaded_file \in QtyFiles
  /\ has_file = TRUE
  /\ pc = "load"
  /\ run = 1
  /\ wb = <<>>
  /\ records = <<>>
  /\ i = 0
  /\ df = NoFrame
  /\ ws_out = NoSheet
  /\ row_idx = 0
  /\ output = [saved |-> FALSE, data |-> NoSheet]
  /\ preview = [shown |-> FALSE, frame |-> NoFrame]
  /\ download = [offered |-> FALSE, data |-> NoSheet]
  /\ errors = 0
  /\ hints = 0
  /\ prev = NoPage

NextQty ==
  \/ LoadWorkbook
  \/ ExtractSheet
  \/ HandleError

SpecQty == InitQty /\ [][NextQty]_vars

\* ---------------------------------------------------------------- what the properties speak of
\* The script has loaded the file in the uploader in this run.
Loaded == has_file /\ uploaded_file.valid /\ pc \notin {"idle", "load"}

\* The value extraction stores for field j of worksheet ws when nothing raises.
Extracted(ws, j) ==
  ExtractCell(cell_map[j][1], CellValue(ws, cell_map[j][2], cell_map[j][3])).v

\* The raw value at the coordinate of field j.
Raw(ws, j) == CellValue(ws, cell_map[j][2], cell_map[j][3])

\* The rows of a sheet that hold a cell, and the last of them.
SheetRows(sheet) == {rc[1] : rc \in DOMAIN sheet}
MaxRow(sheet) ==
  IF SheetRows(sheet) = {} THEN 0
  ELSE CHOOSE r \in SheetRows(sheet) : \A q \in SheetRows(sheet) : q <= r

\* A decimal integer as the specification writes it: an optional sign and
\* one or more digits.
PlainDigits(chars) == chars # <<>> /\ \A p \in 1..Len(chars) : chars[p] \in Digits
IntegerText(chars) ==
  \/ PlainDigits(chars)
  \/ chars # <<>> /\ Head(chars) \in {"+", "-"} /\ PlainDigits(Tail(chars))

RECURSIVE DecimalOf(_)
DecimalOf(chars) ==
  IF chars = <<>> THEN 0
  ELSE 10 * DecimalOf(SubSeq(chars, 1, Len(chars) - 1)) + DigitVal(chars[Len(chars)])

IntegerOf(chars) ==
  IF Head(chars) = "-" THEN 0 - DecimalOf(Tail(chars))
  ELSE IF Head(chars) = "+" THEN DecimalOf(Tail(chars))
  ELSE DecimalOf(chars)

EndsWithGM(chars) ==
  Len(chars) >= 2 /\ chars[Len(chars) - 1] = "G" /\ chars[Len(chars)] = "M"

WithoutGM(chars) ==
  IF EndsWithGM(chars) THEN SubSeq(chars, 1, Len(chars) - 2) ELSE chars

\* A quantity text the specification calls malformed.
Malformed(v) == IsText(v) /\ ~IntegerText(WithoutGM(v.s))

\* ---------------------------------------------------------------- properties
\* C1: in a run that does not fail on a workbook of N worksheets, the table
\* has N rows and as many columns as cell_map has entries, every row is that
\* wide, and the output sheet has N + 1 rows.
C1_TableShape ==
  (Loaded /\ pc = "done") =>
    /\ Len(df.rows) = Len(wb)
    /\ Len(df.columns) = FieldCount
    /\ \A r \in 1..Len(df.rows) : Len(df.rows[r]) = FieldCount
    /\ SheetRows(download.data) = 1..(Len(wb) + 1)
    /\ MaxRow(download.data) = Len(wb) + 1

\* C2: in the output sheet row 1 holds the cell_map labels in order and row
\* k + 1 holds, column by column, the values extracted from worksheet k.
C2_RowsInOrder ==
  (Loaded /\ pc = "done") =>
    /\ \A j \in 1..FieldCount :
         /\ <<1, j>> \in DOMAIN download.data
         /\ download.data[<<1, j>>] = TextV(<<Labels[j]>>)
    /\ \A k \in 1..Len(wb) : \A j \in 1..FieldCount :
         /\ <<k + 1, j>> \in DOMAIN download.data
         /\ download.data[<<k + 1, j>>] = Extracted(wb[k], j)
    /\ DOMAIN download.data = (1..(Len(wb) + 1)) \X (1..FieldCount)

\* The quantity cell of the one worksheet has been through the extraction.
QtyActed == Loaded /\ (pc \in {"except", "failed"} \/ (pc = "extract" /\ i = 1))

\* C3: the quantity field yields n for the text of the integer n followed by
\* one "GM", n for the text of the integer n alone, and the cell's own value
\* for a cell that is no text.
C3_QuantityParsed ==
  QtyActed =>
    LET raw == uploaded_file.sheets[1].q
    IN /\ (IsText(raw) /\ EndsWithGM(raw.s) /\ IntegerText(WithoutGM(raw.s))) =>
            (pc = "extract" /\ records[1][1] = <<QtyLabel, IntV(IntegerOf(WithoutGM(raw.s)))>>)
       /\ (IsText(raw) /\ IntegerText(raw.s)) =>
            (pc = "extract" /\ records[1][1] = <<QtyLabel, IntV(IntegerOf(raw.s))>>)
       /\ ~IsText(raw) =>
            (pc = "extract" /\ records[1][1] = <<QtyLabel, raw>>)

C3_Witness ==
  /\ QtyActed
  /\ uploaded_file.sheets[1].q = TextV(T12GM)
  /\ records = << [j \in 1..FieldCount |->
                     IF j = 1 THEN <<QtyLabel, IntV(12)>>
                     ELSE <<Labels[j], IntV(100 * cell_map[j][2] + cell_map[j][3])>>] >>

\* The first worksheet whose quantity cell is malformed, 0 when there is none.
FirstMalformed(sheets) ==
  IF \E k \in 1..Len(sheets) : Malformed(sheets[k].q)
    THEN CHOOSE k \in 1..Len(sheets) :
           /\ Malformed(sheets[k].q)
           /\ \A m \in 1..(k - 1) : ~Malformed(sheets[m].q)
    ELSE 0

\* C4: a malformed quantity text in worksheet k makes the extraction of that
\* worksheet raise: the run goes to the handler with the records of the k - 1
\* worksheets before it, worksheet k and those after it give no record, and
\* the run never builds the table.
C4_MalformedStops ==
  LET k == FirstMalformed(wb)
  IN (Loaded /\ k > 0) =>
       /\ pc \in {"extract", "except", "failed"}
       /\ i < k
       /\ Len(records) = i
       /\ \A m \in 1..i : \A j \in 1..FieldCount : records[m][j][2] = Extracted(wb[m], j)
       /\ pc \in {"except", "failed"} => i = k - 1

C4_MalformedRaises ==
  [][(Loaded /\ FirstMalformed(wb) > 0 /\ pc = "extract" /\ i = FirstMalformed(wb) - 1)
       => (pc' = "except" /\ records' = records /\ i' = i)]_vars

C4_MalformedAborts == []C4_MalformedStops /\ C4_MalformedRaises

C4_Witness ==
  /\ Loaded
  /\ pc = "failed"
  /\ Len(wb) = MaxSheets
  /\ FirstMalformed(wb) = 1
  /\ wb[1].q = TextV(<<"1", "2", "G", "M", "G", "M">>)
  /\ records = <<>>

\* C5: a failure is reported as one message and one hint, and a run that
\* failed offers neither preview nor download: those appear only once every
\* worksheet is extracted and the sheet as written is in the buffer.
C5_FailureShowsNoOutput ==
  /\ errors <= 1
  /\ hints = errors
  /\ (errors = 1) <=> (pc = "failed")
  /\ pc \in {"except", "failed"} => (~preview.shown /\ ~download.offered)
  /\ preview.shown =>
       /\ pc \in {"download", "done"}
       /\ uploaded_file.valid
       /\ wb = uploaded_file.sheets
       /\ i = Len(wb)
       /\ Len(records) = Len(wb)
       /\ row_idx = Len(df.rows)
       /\ output = [saved |-> TRUE, data |-> ws_out]
  /\ download.offered =>
       /\ pc = "done"
       /\ preview.shown
       /\ download.data = output.data

C5_CaughtOnce ==
  [][(pc = "except") => (pc' = "failed" /\ errors' = 1 /\ hints' = 1)]_vars

C5_SingleBoundary == []C5_FailureShowsNoOutput /\ C5_CaughtOnce

C5_Witness ==
  /\ pc = "failed"
  /\ uploaded_file.valid
  /\ Len(wb) = MaxSheets
  /\ i = Len(wb)
  /\ row_idx = Len(wb)
  /\ errors = 1
  /\ ~download.offered

\* C6: a workbook without worksheets gives a table whose columns are the
\* cell_map labels and an output sheet that holds the header row alone.
C6_NoSheetsHeaderOnly ==
  (Loaded /\ pc = "done" /\ Len(wb) = 0) =>
    /\ df.columns = Labels
    /\ df.rows = <<>>
    /\ download.data = [rc \in {1} \X (1..FieldCount) |-> TextV(<<Labels[rc[2]]>>)]

\* C7: a mapped cell that is blank gives an empty output cell, whatever the
\* column holds in the other worksheets.
C7_BlankStaysBlank ==
  (Loaded /\ pc = "done") =>
    \A k \in 1..Len(wb) : \A j \in 1..FieldCount :
      IsEmpty(Raw(wb[k], j)) =>
        /\ <<k + 1, j>> \in DOMAIN download.data
        /\ IsEmpty(download.data[<<k + 1, j>>])

\* C8: an output cell is a number, a text or empty exactly as the extracted
\* value was, and an extracted integer is written as that integer.
C8_TypesPreserved ==
  (Loaded /\ pc = "done") =>
    \A k \in 1..Len(wb) : \A j \in 1..FieldCount :
      LET got == records[k][j][2]
          cell == download.data[<<k + 1, j>>]
      IN /\ <<k + 1, j>> \in DOMAIN download.data
         /\ IsNumber(cell) <=> IsNumber(got)
         /\ IsText(cell) <=> IsText(got)
         /\ IsEmpty(cell) <=> IsEmpty(got)
         /\ got.t = "int" => cell = got

C10_OtherFieldsRaw ==
  Loaded =>
    \A k \in 1..Len(records) :
      /\ Len(records[k]) = FieldCount
      /\ \A j \in 1..FieldCount : records[k][j][1] = Labels[j]
      /\ \A j \in 1..FieldCount :
           Labels[j] # QtyLabel => records[k][j][2] = Raw(wb[k], j)

C10_Witness ==
  /\ Loaded
  /\ Len(records) = MaxSheets
  /\ \E j \in 2..FieldCount : records[1][j][2] = TextV(T12GM)
  /\ records[1][1][2] = IntV(12)

====
